---- MODULE Spec2Model ----
(***************************************************************************)
(* Model of baseline.py (frequency-based normalizer) and evaluation.py     *)
(* (tagger alignment and accuracy calculation).                            *)
(*                                                                         *)
(* A Python str is a sequence of one-character strings, so that split,     *)
(* rstrip, join and readlines are computed the way the code computes them. *)
(* Tag labels produced by the tagger are opaque strings joined with \o.    *)
(***************************************************************************)
EXTENDS Naturals, Sequences, FiniteSets, TLC

VARIABLES
    \* ---- baseline.py: normalize ----
    tokens_train,   \* lines of train.txt
    tokens_dev,     \* lines of dev.txt / test.txt
    d,              \* translation dictionary (insertion-ordered)
    f_out,          \* content of the output file, as written and flushed
    n_idx,          \* number of dev lines the for-loop has consumed
    n_pc,           \* "start" | "loop" | "closed" | "error" | "idle"
    \* ---- evaluation.py: extract_sentences, predict_pos, correct_pos ----
    lines,          \* dev_lines2: lines of the normalized file
    text,           \* one column of it as a token list (orig_tokens)
    sentences,      \* result of extract_sentences
    predicted_POS,  \* flat tagger output, a '\n' after each sentence
    correct_POS,    \* (word, tag) tuples and '\n' emitted so far
    i,              \* cursor into predicted_POS
    k,              \* number of orig_tokens the for-loop has consumed
    POS_only,       \* returned tag list
    overran,        \* history: an iteration began with i >= len(predicted_POS)
    a_pc,           \* "extract" | "tag" | "loop" | "done" | "error" | "idle"
    \* ---- evaluation.py: calculate_accuracies ----
    acc_lines,      \* lines of the eight-column file
    c_idx,          \* number of lines the for-loop has consumed
    n_unique,       \* records per normalization strategy
    n_ambigue,
    n_new,
    same,           \* the nine same_<strategy>_<setting> counters
    acc_result,     \* the tuple returned, or the exception raised
    c_pc            \* "count" | "done" | "error" | "idle"

nvars == <<tokens_train, tokens_dev, d, f_out, n_idx, n_pc>>
avars == <<lines, text, sentences, predicted_POS, correct_POS, i, k, POS_only,
           overran, a_pc>>

cvars == <<acc_lines, c_idx, n_unique, n_ambigue, n_new, same, acc_result, c_pc>>

vars == <<nvars, avars, cvars>>

\* ------------------------------------------------------------------ bounds
MaxTrain == 3
MaxDev == 2

\* ------------------------------------------------------------ str helpers
TAB == "\t"
NL == "\n"

SeqsUpTo(S, n) == UNION {[1..m -> S] : m \in 0..n}

RECURSIVE SplitFrom(_, _, _, _)
SplitFrom(s, sep, p, cur) ==
    IF p > Len(s) THEN <<cur>>
    ELSE IF s[p] = sep THEN <<cur>> \o SplitFrom(s, sep, p + 1, <<>>)
    ELSE SplitFrom(s, sep, p + 1, Append(cur, s[p]))

\* str.split(sep): the fields between separators, empty fields kept.
Split(s, sep) == SplitFrom(s, sep, 1, <<>>)

RECURSIVE Join(_, _)
\* sep.join(parts)
Join(parts, sep) ==
    IF Len(parts) = 0 THEN <<>>
    ELSE IF Len(parts) = 1 THEN parts[1]
    ELSE parts[1] \o <<sep>> \o Join(Tail(parts), sep)

RECURSIVE ReadLinesFrom(_, _, _)
ReadLinesFrom(s, p, cur) ==
    IF p > Len(s) THEN (IF cur = <<>> THEN <<>> ELSE <<cur>>)
    ELSE IF s[p] = NL THEN <<Append(cur, NL)>> \o ReadLinesFrom(s, p + 1, <<>>)
    ELSE ReadLinesFrom(s, p + 1, Append(cur, s[p]))

\* file.readlines(): the lines of a text, each keeping its newline.
ReadLines(s) == ReadLinesFrom(s, 1, <<>>)

\* One input line from its columns.
MkLine(cols) == Join(cols, TAB) \o <<NL>>

\* ------------------------------------------------------------ input files
\* train.txt: blank lines, three-column records, and a line without a tab.
TrainLines ==
    { <<NL>>,
      MkLine(<< <<"a">>, <<"x">>, <<"P">> >>),
      MkLine(<< <<"a">>, <<"y">>, <<"P">> >>),
      MkLine(<< <<"b">>, <<"x">>, <<"Q">> >>),
      MkLine(<< <<"a">> >>) }

\* dev.txt: blank lines, records of a seen and of an unseen form, and a
\* line with two columns only.
DevLines ==
    { <<NL>>,
      MkLine(<< <<"a">>, <<"x">>, <<"P">> >>),
      MkLine(<< <<"c">>, <<"z">>, <<"Q">> >>),
      MkLine(<< <<"a">>, <<"x">> >>) }

\* ------------------------------------------------- baseline.py: the table
\* Python values that the code tells apart: a str and a tuple.
Str(s) == [kind |-> "str", val |-> s]
Tuple(t) == [kind |-> "tuple", val |-> t]

\* x[n] on a str or a tuple (0-based); IndexError when out of range.
CanIndex(x, n) == n < Len(x.val)
Index(x, n) == IF x.kind = "str" THEN <<x.val[n + 1]>> ELSE x.val[n + 1]

\* get_tuples faults on a non-blank line without a second column.
GetTuplesFails(tokens) ==
    \E j \in 1..Len(tokens) : tokens[j] # <<NL>> /\ Len(Split(tokens[j], TAB)) < 2

get_tuples(tokens) ==
    [j \in 1..Len(tokens) |->
        IF tokens[j] = <<NL>> THEN Str(<<NL>>)
        ELSE Tuple(<<Split(tokens[j], TAB)[1], Split(tokens[j], TAB)[2]>>)]

RECURSIVE FirstSeen(_)
\* The distinct elements of a list in first-occurrence order.
FirstSeen(list) ==
    IF Len(list) = 0 THEN <<>>
    ELSE LET front == FirstSeen(SubSeq(list, 1, Len(list) - 1))
             x == list[Len(list)]
         IN IF \E j \in 1..Len(front) : front[j] = x THEN front
            ELSE Append(front, x)

\* Counter replaced by the plain list of pairs: repeated pairs stay apart.
CounterNoMerge(list) ==
    [keys |-> list,
     cnt |-> [x \in {list[j] : j \in 1..Len(list)} |->
                Cardinality({j \in 1..Len(list) : list[j] = x})]]

\* collections.Counter(list): keys in first-seen order, with their counts.
Counter(list) ==
    [keys |-> FirstSeen(list),
     cnt |-> [x \in {list[j] : j \in 1..Len(list)} |->
                Cardinality({j \in 1..Len(list) : list[j] = x})]]

get_norm_freq(tokens) == Counter(get_tuples(tokens))

\* First loop of translation_dict: d[item[0]] = [] for every counted item.
\* item[0] of the str '\n' is '\n' itself, so no IndexError is raised.
DictKeys(counts) ==
    FirstSeen([j \in 1..Len(counts.keys) |-> Index(counts.keys[j], 0)])

RECURSIVE CandidatesNewestFirst(_, _, _)
\* The inner loop with insert(0, ...) for append: newest candidate first.
CandidatesNewestFirst(counts, key, j) ==
    IF j > Len(counts.keys) THEN <<>>
    ELSE LET item == counts.keys[j]
         IN IF key = Index(item, 0) /\ CanIndex(item, 1)
            THEN CandidatesNewestFirst(counts, key, j + 1)
                 \o <<[norm |-> Index(item, 1), freq |-> counts.cnt[item]]>>
            ELSE CandidatesNewestFirst(counts, key, j + 1)

RECURSIVE Candidates(_, _, _)
\* Inner loop of translation_dict for one key, over items j..end.
Candidates(counts, key, j) ==
    IF j > Len(counts.keys) THEN <<>>
    ELSE LET item == counts.keys[j]
         IN IF key = Index(item, 0) /\ CanIndex(item, 1)
            THEN <<[norm |-> Index(item, 1), freq |-> counts.cnt[item]]>>
                 \o Candidates(counts, key, j + 1)
            ELSE Candidates(counts, key, j + 1)

translation_dict(tokens) ==
    LET counts == get_norm_freq(tokens)
        keys == DictKeys(counts)
    IN [keys |-> keys,
        val |-> [key \in {keys[j] : j \in 1..Len(keys)} |->
                    Candidates(counts, key, 1)]]

InDict(key, dict) == \E j \in 1..Len(dict.keys) : dict.keys[j] = key

\* --------------------------------------------- baseline.py: normalize loop
RECURSIVE MaxByFreqLast(_)
\* A max that keeps the last element of maximal key (>= for >).
MaxByFreqLast(list) ==
    IF Len(list) = 1 THEN list[1]
    ELSE LET best == MaxByFreqLast(SubSeq(list, 1, Len(list) - 1))
         IN IF list[Len(list)].freq >= best.freq THEN list[Len(list)] ELSE best

RECURSIVE MaxByFreq(_)
\* max(list_tuples, key=lambda x: x[1]): the first element of maximal key.
MaxByFreq(list) ==
    IF Len(list) = 1 THEN list[1]
    ELSE LET best == MaxByFreq(SubSeq(list, 1, Len(list) - 1))
         IN IF list[Len(list)].freq > best.freq THEN list[Len(list)] ELSE best

\* line_out = n_strategy + "\t" + non_standard + "\t" + n_pred + "\t" + standard + "\t" + POS
LineOut(n_strategy, non_standard, n_pred, standard, POS) ==
    <<n_strategy>> \o <<TAB>> \o non_standard \o <<TAB>> \o n_pred
        \o <<TAB>> \o standard \o <<TAB>> \o POS

CurLine == tokens_dev[n_idx + 1]
InLoop == n_pc = "loop" /\ n_idx < Len(tokens_dev)
Cols(line) == Split(line, TAB)

\* d = translation_dict(tokens_train) raises IndexError out of get_tuples,
\* before the output file is opened.
TrainFault ==
    /\ n_pc = "start"
    /\ GetTuplesFails(tokens_train)
    /\ n_pc' = "error"
    /\ UNCHANGED <<tokens_train, tokens_dev, d, f_out, n_idx>>
    /\ UNCHANGED avars
    /\ UNCHANGED cvars

\* d = translation_dict(tokens_train); open(path_out, 'w')
BuildDict ==
    /\ n_pc = "start"
    /\ ~GetTuplesFails(tokens_train)
    /\ d' = translation_dict(tokens_train)
    /\ f_out' = <<>>
    /\ n_pc' = "loop"
    /\ UNCHANGED <<tokens_train, tokens_dev, n_idx>>
    /\ UNCHANGED avars
    /\ UNCHANGED cvars

\* The blank-line branch without its write.
WriteBlankSkipped ==
    /\ n_pc = "loop" /\ n_idx < Len(tokens_dev)
    /\ tokens_dev[n_idx + 1] = <<NL>>
    /\ n_idx' = n_idx + 1
    /\ UNCHANGED <<tokens_train, tokens_dev, d, f_out, n_pc>>
    /\ UNCHANGED avars
    /\ UNCHANGED cvars

\* if line == "\n": f_out.write("\n")
WriteBlank ==
    /\ InLoop
    /\ CurLine = <<NL>>
    /\ f_out' = f_out \o <<NL>>
    /\ n_idx' = n_idx + 1
    /\ UNCHANGED <<tokens_train, tokens_dev, d, n_pc>>
    /\ UNCHANGED avars
    /\ UNCHANGED cvars

\* line.split('\t')[2] raises IndexError (or max() of an empty list raises
\* ValueError); the with-block closes the file, keeping what was written.
LineFault ==
    /\ InLoop
    /\ CurLine # <<NL>>
    /\ \/ Len(Cols(CurLine)) < 3
       \/ /\ InDict(Cols(CurLine)[1], d)
          /\ Len(d.val[Cols(CurLine)[1]]) = 0
    /\ n_pc' = "error"
    /\ UNCHANGED <<tokens_train, tokens_dev, d, f_out, n_idx>>
    /\ UNCHANGED avars
    /\ UNCHANGED cvars

WellFormed ==
    /\ InLoop
    /\ CurLine # <<NL>>
    /\ Len(Cols(CurLine)) >= 3

\* UNIQUE: len(list_tuples) == 1
WriteUnique ==
    /\ WellFormed
    /\ LET non_standard == Cols(CurLine)[1]
           standard == Cols(CurLine)[2]
           POS == Cols(CurLine)[3]
       IN /\ InDict(non_standard, d)
          /\ Len(d.val[non_standard]) = 1
          /\ f_out' = f_out \o LineOut("U", non_standard,
                                       d.val[non_standard][1].norm, standard, POS)
    /\ n_idx' = n_idx + 1
    /\ UNCHANGED <<tokens_train, tokens_dev, d, n_pc>>
    /\ UNCHANGED avars
    /\ UNCHANGED cvars

\* AMBIGUOUS: the else branch of len(list_tuples) == 1
WriteAmbiguous ==
    /\ WellFormed
    /\ LET non_standard == Cols(CurLine)[1]
           standard == Cols(CurLine)[2]
           POS == Cols(CurLine)[3]
       IN /\ InDict(non_standard, d)
          /\ Len(d.val[non_standard]) > 1
          /\ f_out' = f_out \o LineOut("A", non_standard,
                                       MaxByFreq(d.val[non_standard]).norm, standard, POS)
    /\ n_idx' = n_idx + 1
    /\ UNCHANGED <<tokens_train, tokens_dev, d, n_pc>>
    /\ UNCHANGED avars
    /\ UNCHANGED cvars

\* The NEW branch predicting the gold column instead of the form itself.
WriteNewGold ==
    /\ WellFormed
    /\ LET non_standard == Cols(CurLine)[1]
           standard == Cols(CurLine)[2]
           POS == Cols(CurLine)[3]
       IN /\ ~InDict(non_standard, d)
          /\ f_out' = f_out \o LineOut("N", non_standard, standard, standard, POS)
    /\ n_idx' = n_idx + 1
    /\ UNCHANGED <<tokens_train, tokens_dev, d, n_pc>>
    /\ UNCHANGED avars
    /\ UNCHANGED cvars

\* NEW: non_standard not in d
WriteNew ==
    /\ WellFormed
    /\ LET non_standard == Cols(CurLine)[1]
           standard == Cols(CurLine)[2]
           POS == Cols(CurLine)[3]
       IN /\ ~InDict(non_standard, d)
          /\ f_out' = f_out \o LineOut("N", non_standard, non_standard, standard, POS)
    /\ n_idx' = n_idx + 1
    /\ UNCHANGED <<tokens_train, tokens_dev, d, n_pc>>
    /\ UNCHANGED avars
    /\ UNCHANGED cvars

\* The for-loop ends; the with-block closes the file; return f_out.
CloseFile ==
    /\ n_pc = "loop"
    /\ n_idx = Len(tokens_dev)
    /\ n_pc' = "closed"
    /\ UNCHANGED <<tokens_train, tokens_dev, d, f_out, n_idx>>
    /\ UNCHANGED avars
    /\ UNCHANGED cvars

EmptyDict == [keys |-> <<>>, val |-> <<>>]

\* The nine agreement counters, all zero.
NoneSame ==
    [u_lb |-> 0, u_ub |-> 0, u_b |-> 0,
     a_lb |-> 0, a_ub |-> 0, a_b |-> 0,
     n_lb |-> 0, n_ub |-> 0, n_b |-> 0]

NoResult == [raised |-> "none", table |-> <<>>]

\* calculate_accuracies is not running.
AccIdle ==
    /\ acc_lines = <<>> /\ c_idx = 0
    /\ n_unique = 0 /\ n_ambigue = 0 /\ n_new = 0
    /\ same = NoneSame /\ acc_result = NoResult /\ c_pc = "idle"

\* The evaluation script is not running.
AlignIdle ==
    /\ lines = <<>> /\ text = <<>> /\ sentences = <<>>
    /\ predicted_POS = <<>> /\ correct_POS = <<>>
    /\ i = 0 /\ k = 0 /\ POS_only = <<>>
    /\ overran = FALSE /\ a_pc = "idle"

NormInit ==
    /\ tokens_train \in SeqsUpTo(TrainLines, MaxTrain)
    /\ tokens_dev \in SeqsUpTo(DevLines, MaxDev)
    /\ d = EmptyDict
    /\ f_out = <<>>
    /\ n_idx = 0
    /\ n_pc = "start"
    /\ AlignIdle
    /\ AccIdle

NormNext ==
    \/ TrainFault
    \/ BuildDict
    \/ WriteBlank
    \/ LineFault
    \/ WriteUnique
    \/ WriteAmbiguous
    \/ WriteNew
    \/ CloseFile

SpecNorm == NormInit /\ [][NormNext]_vars

\* ------------------------------------------------ properties of normalize
\* The table has been built from tokens_train.
Built == n_pc # "start" /\ ~GetTuplesFails(tokens_train)

\* What the training data says about a form, read off the lines directly.
TrainOcc(ns) ==
    {j \in 1..Len(tokens_train) :
        tokens_train[j] # <<NL>> /\ Cols(tokens_train[j])[1] = ns}
TrainNorms(ns) == {Cols(tokens_train[j])[2] : j \in TrainOcc(ns)}

\* The output file read back, and the non-blank dev records consumed so far.
OutRecs == ReadLines(f_out)
Consumed == {j \in 1..n_idx : tokens_dev[j] # <<NL>>}
DictKeySet == {d.keys[j] : j \in 1..Len(d.keys)}

\* C2: a consumed dev record whose form has two or more distinct training
\* normalizations is written with strategy A and with a candidate of
\* maximal recorded frequency, the first such candidate of the list.
C2_AmbiguousPicksFirstMax ==
    Built =>
        \A j \in Consumed :
            LET ns == Cols(tokens_dev[j])[1]
            IN Cardinality(TrainNorms(ns)) >= 2 =>
                /\ j <= Len(OutRecs)
                /\ Cols(OutRecs[j])[1] = <<"A">>
                /\ \E p \in 1..Len(d.val[ns]) :
                     /\ d.val[ns][p].norm = Cols(OutRecs[j])[3]
                     /\ \A q \in 1..Len(d.val[ns]) :
                          d.val[ns][q].freq <= d.val[ns][p].freq
                     /\ \A q \in 1..(p - 1) :
                          d.val[ns][q].freq < d.val[ns][p].freq

\* An ambiguous record was written where two candidates tie for the maximum.
C2_Witness ==
    /\ n_pc = "closed"
    /\ \E j \in Consumed :
         LET ns == Cols(tokens_dev[j])[1]
         IN /\ Cardinality(TrainNorms(ns)) >= 2
            /\ d.val[ns][1].freq = d.val[ns][2].freq
            /\ Cols(OutRecs[j])[1] = <<"A">>

\* C3: a consumed dev record whose form has exactly one distinct training
\* normalization has a singleton candidate list, and is written with
\* strategy U and that normalization.
C3_UniqueSingleton ==
    Built =>
        \A j \in Consumed :
            LET ns == Cols(tokens_dev[j])[1]
            IN Cardinality(TrainNorms(ns)) = 1 =>
                /\ Len(d.val[ns]) = 1
                /\ j <= Len(OutRecs)
                /\ Cols(OutRecs[j])[1] = <<"U">>
                /\ Cols(OutRecs[j])[3] \in TrainNorms(ns)
                /\ Cols(OutRecs[j])[3] = d.val[ns][1].norm

\* A unique record was written for a form whose pair occurs several times.
C3_Witness ==
    /\ n_pc = "closed"
    /\ \E j \in Consumed :
         LET ns == Cols(tokens_dev[j])[1]
         IN /\ Cardinality(TrainNorms(ns)) = 1
            /\ Cardinality(TrainOcc(ns)) >= 2
            /\ Cols(OutRecs[j])[1] = <<"U">>

\* C4: a consumed dev record is written with strategy N exactly when its
\* form is not a key of the table, and then the prediction is the form.
C4_NewIffAbsent ==
    Built =>
        \A j \in Consumed :
            LET ns == Cols(tokens_dev[j])[1]
            IN /\ j <= Len(OutRecs)
               /\ (Cols(OutRecs[j])[1] = <<"N">>) <=> (ns \notin DictKeySet)
               /\ ns \notin DictKeySet =>
                    /\ Cols(OutRecs[j])[2] = ns
                    /\ Cols(OutRecs[j])[3] = ns

\* Against a non-empty table, one record was written N and another was not.
C4_Witness ==
    /\ n_pc = "closed"
    /\ DictKeySet # {}
    /\ \E j \in Consumed : Cols(tokens_dev[j])[1] \notin DictKeySet
    /\ \E j \in Consumed : Cols(tokens_dev[j])[1] \in DictKeySet

\* C5: once the table is built, every key has a non-empty candidate list.
C5_CandidatesNonEmpty ==
    Built => \A key \in DictKeySet : Len(d.val[key]) >= 1

\* C6: the output holds one record per consumed input line, in input
\* order, blank exactly where the input is blank; a closed run of
\* well-formed input has consumed every line.
C6_OneRecordPerLine ==
    n_pc \in {"loop", "closed"} =>
        /\ Len(OutRecs) = n_idx
        /\ n_pc = "closed" => n_idx = Len(tokens_dev)
        /\ \A j \in 1..n_idx :
             /\ (OutRecs[j] = <<NL>>) <=> (tokens_dev[j] = <<NL>>)
             /\ tokens_dev[j] # <<NL>> =>
                  /\ Len(Cols(OutRecs[j])) = 5
                  /\ Cols(OutRecs[j])[2] = Cols(tokens_dev[j])[1]
                  /\ Cols(OutRecs[j])[4] = Cols(tokens_dev[j])[2]
                  /\ Cols(OutRecs[j])[5] = Cols(tokens_dev[j])[3]

\* A run over a blank line and a record has closed its file.
C6_Witness ==
    /\ n_pc = "closed"
    /\ Len(tokens_dev) >= 2
    /\ \E j \in 1..Len(tokens_dev) : tokens_dev[j] = <<NL>>
    /\ \E j \in 1..Len(tokens_dev) : tokens_dev[j] # <<NL>>

\* The training lines that carry the pair (ns, norm), and the first of them.
PairOcc(ns, norm) == {j \in TrainOcc(ns) : Cols(tokens_train[j])[2] = norm}
FirstOcc(ns, norm) ==
    CHOOSE j \in PairOcc(ns, norm) : \A j2 \in PairOcc(ns, norm) : j <= j2

\* The forms of the non-blank training lines.
TrainForms ==
    {Cols(tokens_train[j])[1] :
        j \in {j2 \in 1..Len(tokens_train) : tokens_train[j2] # <<NL>>}}

RECURSIVE SumFreq(_)
SumFreq(list) ==
    IF Len(list) = 0 THEN 0 ELSE list[1].freq + SumFreq(Tail(list))

\* C11: for every form of a non-blank training line, the candidate list
\* holds each normalization observed with the form exactly once, in
\* first-observed order, with the number of training lines carrying that
\* pair as its frequency; the frequencies sum to the form's occurrences.
C11_CandidatesCountPairs ==
    Built =>
        \A ns \in TrainForms :
            /\ ns \in DictKeySet
            /\ {d.val[ns][p].norm : p \in 1..Len(d.val[ns])} = TrainNorms(ns)
            /\ Len(d.val[ns]) = Cardinality(TrainNorms(ns))
            /\ \A p \in 1..Len(d.val[ns]) :
                 d.val[ns][p].freq = Cardinality(PairOcc(ns, d.val[ns][p].norm))
            /\ \A p, q \in 1..Len(d.val[ns]) :
                 p < q => FirstOcc(ns, d.val[ns][p].norm) < FirstOcc(ns, d.val[ns][q].norm)
            /\ SumFreq(d.val[ns]) = Cardinality(TrainOcc(ns))

\* A table built from a repeated pair and a second normalization of the
\* same form.
C11_Witness ==
    /\ Built
    /\ \E ns \in TrainForms :
         /\ Len(d.val[ns]) = 2
         /\ \E p \in 1..2 : d.val[ns][p].freq = 2

\* C8: a run that aborted has left none of the records it had processed
\* in its output.
C8_NoPartialOutput ==
    n_pc = "error" => \A r \in 1..Len(OutRecs) : OutRecs[r] = <<NL>>

\* ------------------------------------- evaluation.py: columns and sentences
MaxRef == 2
MaxStream == 5

SPACE == " "
Whitespace == {SPACE, TAB, NL}

RECURSIVE RStrip(_)
\* str.rstrip()
RStrip(s) ==
    IF Len(s) > 0 /\ s[Len(s)] \in Whitespace
    THEN RStrip(SubSeq(s, 1, Len(s) - 1)) ELSE s

RECURSIVE WordsFrom(_, _, _)
WordsFrom(s, p, cur) ==
    IF p > Len(s) THEN (IF cur = <<>> THEN <<>> ELSE <<cur>>)
    ELSE IF s[p] \in Whitespace
         THEN (IF cur = <<>> THEN <<>> ELSE <<cur>>) \o WordsFrom(s, p + 1, <<>>)
         ELSE WordsFrom(s, p + 1, Append(cur, s[p]))

\* str.split() without argument: the whitespace-delimited words.
Words(s) == WordsFrom(s, 1, <<>>)

\* Reference tokens of one to five words, and two the exception table lists.
RefTokens ==
    { <<"a">>,
      <<"!", "!">>,
      <<"!", "!", "!">>,
      <<"a", SPACE, "b">>,
      <<"a", SPACE, "b", SPACE, "c">>,
      <<"a", SPACE, "b", SPACE, "c", SPACE, "e">>,
      <<"a", SPACE, "b", SPACE, "c", SPACE, "e", SPACE, "f">> }

\* Lines of a *_norm_out.txt file: blank lines and five-column records.
EvalLines ==
    {<<NL>>} \cup
    {MkLine(<< <<"N">>, tok, tok, tok, <<"P">> >>) : tok \in RefTokens}

\* columns_to_lists(lines)[0]: the non_standard column, blank lines kept.
columns_to_lists(ls) ==
    [j \in 1..Len(ls) |->
        IF ls[j] = <<NL>> THEN <<NL>> ELSE RStrip(Split(ls[j], TAB)[2])]

\* ls with n more '\n' appended.
Padded(ls, n) == ls \o [j \in 1..n |-> <<NL>>]

\* sent_boundaries(ls), called on a list it first appends '\n' to:
\* the 0-based indexes of the '\n' lines.
sent_boundaries(ls) ==
    {j - 1 : j \in {q \in 1..(Len(ls) + 1) : Padded(ls, 1)[q] = <<NL>>}}

RECURSIVE ExtractFrom(_, _, _, _)
\* The loop of extract_sentences from 0-based position p; each iteration
\* calls sent_boundaries, which has grown ls by p entries before.
ExtractFrom(toks, ls, p, sentence) ==
    IF p >= Len(toks) THEN <<>>
    ELSE IF p \in sent_boundaries(Padded(ls, p))
         THEN <<Join(sentence, SPACE)>> \o ExtractFrom(toks, ls, p + 1, <<>>)
         ELSE ExtractFrom(toks, ls, p + 1, Append(sentence, toks[p + 1]))

\* extract_sentences(text, lines), text already holding its appended '\n'.
extract_sentences(toks, ls) == ExtractFrom(toks, ls, 0, <<>>)

\* ------------------------------------------- evaluation.py: the tagger
TaggerTags == {"VAFIN", "PPER"}
TaggerEntries == {Tuple(<<"w", t>>) : t \in TaggerTags}
Sentinel == Str(<<NL>>)

SentinelCount(stream) == Cardinality({j \in 1..Len(stream) : stream[j] = Sentinel})

\* The number of tagger tokens a stream holds for its j-th sentence: the
\* entries between the (j-1)-th and the j-th '\n'.
TokensOfSentence(stream, j) ==
    Cardinality({p \in 1..Len(stream) :
        /\ stream[p] # Sentinel
        /\ SentinelCount(SubSeq(stream, 1, p)) = j - 1})

\* predict_pos(text): for each sentence the tokens of nlp(sent), then one
\* '\n'. The tagger is free in how it splits a sentence and in the tags it
\* gives; its tokenization covers the text, so it yields no token for ''
\* and at least one otherwise.
predict_pos(sents) ==
    {stream \in UNION {[1..n -> TaggerEntries \cup {Sentinel}] : n \in 1..MaxStream} :
        /\ SentinelCount(stream) = Len(sents)
        /\ stream[Len(stream)] = Sentinel
        /\ \A j \in 1..Len(sents) :
             (TokensOfSentence(stream, j) = 0) <=> (sents[j] = <<>>)}

\* ----------------------------------------- evaluation.py: correct_pos
\* The dictionary d of correct_pos: surface form -> (tag, tagger tokens).
ExcKeys ==
    { <<"!", "!", "!">>, <<"!", "!">>, <<"!", "!", "!", "!", "!">>,
      <<"?", "?">>, <<"?", "!">>, <<"*", "_", "*">>, <<";", "P">>,
      <<":", "\\">>, <<"e", "v", "t", ".">>,
      <<"[", "S", "t", "r", "e", "e", "t", "A", "d", "d", "r", "e", "s", "s", "]">>,
      <<"[", "L", "a", "s", "t", "N", "a", "m", "e", "]">>,
      <<"*", "g", "o", "o", "g", "l", "e", "*">>, <<"Z", ".", "b", ".">> }

ExcEntry(word) ==
    CASE word = <<"!", "!", "!">> -> <<"$.", 3>>
      [] word = <<"!", "!">> -> <<"$.", 2>>
      [] word = <<"!", "!", "!", "!", "!">> -> <<"$.", 5>>
      [] word = <<"?", "?">> -> <<"$.", 2>>
      [] word = <<"?", "!">> -> <<"$.", 2>>
      [] word = <<"*", "_", "*">> -> <<"EMO", 3>>
      [] word = <<";", "P">> -> <<"EMO", 2>>
      [] word = <<":", "\\">> -> <<"$.", 2>>
      [] word = <<"e", "v", "t", ".">> -> <<"ADV", 2>>
      [] word = <<"[", "S", "t", "r", "e", "e", "t", "A", "d", "d", "r", "e", "s", "s", "]">>
            -> <<"NN", 3>>
      [] word = <<"[", "L", "a", "s", "t", "N", "a", "m", "e", "]">> -> <<"NN", 3>>
      [] word = <<"*", "g", "o", "o", "g", "l", "e", "*">> -> <<"NE", 3>>
      [] word = <<"Z", ".", "b", ".">> -> <<"NN", 2>>

CurWord == text[k + 1]
AtHead == a_pc = "loop" /\ k < Len(text)
NWords == Len(Words(CurWord))

\* predicted_POS[p][0] and predicted_POS[p][1] can be read (p is 0-based).
CanRead(p) == p < Len(predicted_POS) /\ CanIndex(predicted_POS[p + 1], 1)

\* The history of overruns after a step to cursor ni and position nk.
Overrun(ni, nk) == overran \/ (nk < Len(text) /\ ni >= Len(predicted_POS))

RECURSIVE JoinPlusReversed(_, _, _)
\* The same join with the entries taken last to first.
JoinPlusReversed(p, n, col) ==
    IF n = 1 THEN Index(predicted_POS[p + 1], col)
    ELSE Index(predicted_POS[p + n], col) \o "+" \o JoinPlusReversed(p, n - 1, col)

RECURSIVE JoinPlus(_, _, _)
\* word_1 + '+' + word_2 + ... (col 0) or tag_1 + '+' + tag_2 + ... (col 1)
\* of the n entries from 0-based position p.
JoinPlus(p, n, col) ==
    IF n = 1 THEN Index(predicted_POS[p + 1], col)
    ELSE JoinPlus(p, n - 1, col) \o "+" \o Index(predicted_POS[p + n], col)

NormIdle ==
    /\ tokens_train = <<>> /\ tokens_dev = <<>> /\ d = EmptyDict
    /\ f_out = <<>> /\ n_idx = 0 /\ n_pc = "idle"

\* main: non_standard_dev_sent = extract_sentences(non_standard_dev, dev_lines2)
\* text.append('\n'); every iteration's sent_boundaries call appends to lines.
ExtractSentences ==
    /\ a_pc = "extract"
    /\ text' = Append(text, <<NL>>)
    /\ sentences' = extract_sentences(Append(text, <<NL>>), lines)
    /\ lines' = Padded(lines, Len(text) + 1)
    /\ a_pc' = "tag"
    /\ UNCHANGED <<predicted_POS, correct_POS, i, k, POS_only, overran>>
    /\ UNCHANGED nvars
    /\ UNCHANGED cvars

\* predicted_POS = predict_pos(text); correct_POS = []; i = 0
PredictPos ==
    /\ a_pc = "tag"
    /\ predicted_POS' \in predict_pos(sentences)
    /\ correct_POS' = <<>>
    /\ i' = 0
    /\ k' = 0
    /\ overran' = FALSE
    /\ a_pc' = "loop"
    /\ UNCHANGED <<lines, text, sentences, POS_only>>
    /\ UNCHANGED nvars
    /\ UNCHANGED cvars

\* The blank branch without its i += 1.
StepBlankNoAdvance ==
    /\ AtHead
    /\ NWords = 0
    /\ correct_POS' = Append(correct_POS, Str(<<NL>>))
    /\ i' = i
    /\ k' = k + 1
    /\ overran' = Overrun(i, k + 1)
    /\ UNCHANGED <<lines, text, sentences, predicted_POS, POS_only, a_pc>>
    /\ UNCHANGED nvars
    /\ UNCHANGED cvars

\* len(word.split()) == 0: correct_POS.append("\n"); i += 1
StepBlank ==
    /\ AtHead
    /\ NWords = 0
    /\ correct_POS' = Append(correct_POS, Str(<<NL>>))
    /\ i' = i + 1
    /\ k' = k + 1
    /\ overran' = Overrun(i + 1, k + 1)
    /\ UNCHANGED <<lines, text, sentences, predicted_POS, POS_only, a_pc>>
    /\ UNCHANGED nvars
    /\ UNCHANGED cvars

\* The exception-table branch with i += 1 for i += d[word][1].
StepExceptionByOne ==
    /\ AtHead
    /\ NWords = 1
    /\ CurWord \in ExcKeys
    /\ correct_POS' = Append(correct_POS, Tuple(<<CurWord, ExcEntry(CurWord)[1]>>))
    /\ i' = i + 1
    /\ k' = k + 1
    /\ overran' = Overrun(i + 1, k + 1)
    /\ UNCHANGED <<lines, text, sentences, predicted_POS, POS_only, a_pc>>
    /\ UNCHANGED nvars
    /\ UNCHANGED cvars

\* word in d.keys(): correct_POS.append((word, d[word][0])); i += d[word][1]
StepException ==
    /\ AtHead
    /\ NWords = 1
    /\ CurWord \in ExcKeys
    /\ correct_POS' = Append(correct_POS, Tuple(<<CurWord, ExcEntry(CurWord)[1]>>))
    /\ i' = i + ExcEntry(CurWord)[2]
    /\ k' = k + 1
    /\ overran' = Overrun(i + ExcEntry(CurWord)[2], k + 1)
    /\ UNCHANGED <<lines, text, sentences, predicted_POS, POS_only, a_pc>>
    /\ UNCHANGED nvars
    /\ UNCHANGED cvars

\* correct_POS.append((predicted_POS[i][0], predicted_POS[i][1])); i += 1
StepSingle ==
    /\ AtHead
    /\ NWords = 1
    /\ CurWord \notin ExcKeys
    /\ CanRead(i)
    /\ correct_POS' = Append(correct_POS, Tuple(<<JoinPlus(i, 1, 0), JoinPlus(i, 1, 1)>>))
    /\ i' = i + 1
    /\ k' = k + 1
    /\ overran' = Overrun(i + 1, k + 1)
    /\ UNCHANGED <<lines, text, sentences, predicted_POS, POS_only, a_pc>>
    /\ UNCHANGED nvars
    /\ UNCHANGED cvars

\* The branch for a word of n words (n = 2, 3, 4): read n entries, append
\* the words and the tags joined with '+', leave the cursor n further.
StepMulti(n) ==
    /\ AtHead
    /\ NWords = n
    /\ \A p \in i..(i + n - 1) : CanRead(p)
    /\ correct_POS' = Append(correct_POS, Tuple(<<JoinPlus(i, n, 0), JoinPlus(i, n, 1)>>))
    /\ i' = i + n
    /\ k' = k + 1
    /\ overran' = Overrun(i + n, k + 1)
    /\ UNCHANGED <<lines, text, sentences, predicted_POS, POS_only, a_pc>>
    /\ UNCHANGED nvars
    /\ UNCHANGED cvars

\* elif len(word.split()) == 2
StepTwo ==
    /\ AtHead
    /\ NWords = 2
    /\ StepMulti(2)

\* elif len(word.split()) == 3
StepThree ==
    /\ AtHead
    /\ NWords = 3
    /\ StepMulti(3)

\* elif len(word.split()) == 4
StepFour ==
    /\ AtHead
    /\ NWords = 4
    /\ StepMulti(4)

\* No branch of the if/elif chain matches a word of five or more words.
StepNoBranch ==
    /\ AtHead
    /\ NWords >= 5
    /\ k' = k + 1
    /\ overran' = Overrun(i, k + 1)
    /\ UNCHANGED <<lines, text, sentences, predicted_POS, correct_POS, i, POS_only, a_pc>>
    /\ UNCHANGED nvars
    /\ UNCHANGED cvars

\* predicted_POS[i] raises IndexError past the end of the list, and
\* predicted_POS[i][1] raises IndexError on the str '\n'; the cursor stops
\* at the entry that could not be read.
StepFault ==
    /\ AtHead
    /\ \/ NWords = 1 /\ CurWord \notin ExcKeys
       \/ NWords \in 2..4
    /\ \E p \in i..(i + NWords - 1) :
         /\ ~CanRead(p)
         /\ \A q \in i..(p - 1) : CanRead(q)
         /\ i' = p
    /\ a_pc' = "error"
    /\ UNCHANGED <<lines, text, sentences, predicted_POS, correct_POS, k, POS_only, overran>>
    /\ UNCHANGED nvars
    /\ UNCHANGED cvars

\* POS_only: '\n' for a '\n' item, item[1] for a tuple.
TagOf(item) == IF item = Str(<<NL>>) THEN NL ELSE Index(item, 1)

\* The return without correct_POS[:-1].
ReturnNoStrip ==
    /\ a_pc = "loop"
    /\ k = Len(text)
    /\ POS_only' = [j \in 1..Len(correct_POS) |-> TagOf(correct_POS[j])]
    /\ a_pc' = "done"
    /\ UNCHANGED <<lines, text, sentences, predicted_POS, correct_POS, i, k, overran>>
    /\ UNCHANGED nvars
    /\ UNCHANGED cvars

\* correct_POS = correct_POS[:-1]; POS_only = [...]; return POS_only
Return ==
    /\ a_pc = "loop"
    /\ k = Len(text)
    /\ correct_POS' = SubSeq(correct_POS, 1, Len(correct_POS) - 1)
    /\ POS_only' = [j \in 1..(Len(correct_POS) - 1) |-> TagOf(correct_POS[j])]
    /\ a_pc' = "done"
    /\ UNCHANGED <<lines, text, sentences, predicted_POS, i, k, overran>>
    /\ UNCHANGED nvars
    /\ UNCHANGED cvars

AlignInit ==
    /\ lines \in SeqsUpTo(EvalLines, MaxRef)
    /\ text = columns_to_lists(lines)
    /\ sentences = <<>>
    /\ predicted_POS = <<>>
    /\ correct_POS = <<>>
    /\ i = 0
    /\ k = 0
    /\ POS_only = <<>>
    /\ overran = FALSE
    /\ a_pc = "extract"
    /\ NormIdle
    /\ AccIdle

AlignNext ==
    \/ ExtractSentences
    \/ PredictPos
    \/ StepBlank
    \/ StepException
    \/ StepSingle
    \/ StepTwo
    \/ StepThree
    \/ StepFour
    \/ StepNoBranch
    \/ StepFault
    \/ Return

SpecAlign == AlignInit /\ [][AlignNext]_vars

\* ---------------------------------------------- properties of correct_pos
\* The reference tokens as given to extract_sentences, which appended one
\* '\n' to them.
NOrig == Len(text) - 1

\* One tag per original reference token: '\n' at the blank sentinels, and
\* a tag label at the tokens that hold a word.
OneTagPerToken ==
    /\ Len(POS_only) = NOrig
    /\ \A p \in 1..NOrig :
         /\ text[p] = <<NL>> => POS_only[p] = NL
         /\ (POS_only[p] = NL) <=> (Len(Words(text[p])) = 0)

\* C1 as claimed: whenever correct_pos returns, its tag list has one entry
\* per original reference token, blank exactly at the blank sentinels,
\* whatever the number of words of the tokens.
C1_AnyWordCount ==
    a_pc = "done" => OneTagPerToken

\* C1 as amended: the same for token sequences whose tokens have at most
\* four whitespace-delimited words; during the walk one entry has been
\* emitted per token consumed.
C1_AtMostFourWords ==
    (\A p \in 1..Len(text) : Len(Words(text[p])) <= 4) =>
        /\ a_pc = "done" => OneTagPerToken
        /\ a_pc = "loop" => Len(correct_POS) = k

\* A returned list for a multi-word token followed by a blank line.
C1_Witness ==
    /\ a_pc = "done"
    /\ NOrig = 2
    /\ Len(Words(text[1])) \in 2..4
    /\ text[2] = <<NL>>
    /\ POS_only[2] = NL

\* C7: a walk that began an iteration with the cursor at or past the end
\* of predicted_POS does not return.
C7_OverrunAborts ==
    a_pc = "done" => ~overran

\* An iteration begins with the entry at the cursor out of step: a blank
\* reference token facing a tagger tuple, or a reference word facing '\n'.
MismatchAtHead ==
    /\ AtHead
    /\ i < Len(predicted_POS)
    /\ (NWords = 0) # (predicted_POS[i + 1] = Sentinel)

\* C10: an iteration that begins out of step aborts.
C10_SentinelLockstep ==
    [][MismatchAtHead => a_pc' = "error"]_vars

\* The tag label of the tagger entry at 0-based position p.
TagAt(p) == predicted_POS[p + 1].val[2]

\* The entries at 0-based positions p..p+n-1 exist and are tagger tuples.
Readable(p, n) ==
    \A q \in p..(p + n - 1) :
        q < Len(predicted_POS) /\ predicted_POS[q + 1] # Sentinel

\* The tag labels of the n entries from p, in order, joined with '+'.
PlusTags(p, n) ==
    CASE n = 1 -> TagAt(p)
      [] n = 2 -> TagAt(p) \o "+" \o TagAt(p + 1)
      [] n = 3 -> TagAt(p) \o "+" \o TagAt(p + 1) \o "+" \o TagAt(p + 2)
      [] n = 4 -> TagAt(p) \o "+" \o TagAt(p + 1) \o "+" \o TagAt(p + 2)
                    \o "+" \o TagAt(p + 3)

\* The step emits exactly one entry, with tag label tg, and leaves the
\* cursor at ni.
Emits(tg, ni) ==
    /\ a_pc' = "loop"
    /\ k' = k + 1
    /\ i' = ni
    /\ Len(correct_POS') = Len(correct_POS) + 1
    /\ SubSeq(correct_POS', 1, Len(correct_POS)) = correct_POS
    /\ correct_POS'[Len(correct_POS')] # Sentinel
    /\ correct_POS'[Len(correct_POS')].val[2] = tg

\* The step aborts with nothing emitted.
Aborts == a_pc' = "error" /\ correct_POS' = correct_POS

\* C12: a step on a reference token of N words, N in 2..4, with the cursor
\* at i emits one tag, the tag labels of the entries i..i+N-1 joined in
\* order with '+', and leaves the cursor at i+N; when one of these entries
\* cannot be read the step raises IndexError instead.
C12_MultiWordJoinsTags ==
    [][(AtHead /\ NWords \in 2..4) =>
          IF Readable(i, NWords)
          THEN Emits(PlusTags(i, NWords), i + NWords)
          ELSE Aborts]_vars

\* The two-word token was given the tag VAFIN+PPER from the entries 0, 1.
C12_Witness ==
    /\ a_pc = "loop"
    /\ k = 1
    /\ i = 2
    /\ Len(Words(text[1])) = 2
    /\ TagAt(0) = "VAFIN" /\ TagAt(1) = "PPER"
    /\ correct_POS[1].val[2] = "VAFIN+PPER"

\* C13: a step on a one-word reference token with the cursor at i emits
\* the exception table's tag and moves the cursor by the table's count when
\* the token is a key of the table, whatever the stream holds; otherwise it
\* emits the tag of the entry at i and moves the cursor to i+1 (raising
\* IndexError when that entry cannot be read).
C13_SingleWordStep ==
    [][(AtHead /\ NWords = 1) =>
          IF CurWord \in ExcKeys
          THEN Emits(ExcEntry(CurWord)[1], i + ExcEntry(CurWord)[2])
          ELSE IF Readable(i, 1) THEN Emits(TagAt(i), i + 1) ELSE Aborts]_vars

\* The token '!!!' was given the tag '$.' and the cursor moved by 3, and a
\* plain word after it took the tag of the entry at 3.
C13_Witness ==
    /\ a_pc = "loop"
    /\ k = 2
    /\ i = 4
    /\ text[1] = <<"!", "!", "!">>
    /\ correct_POS[1].val[2] = "$."
    /\ Len(Words(text[2])) = 1 /\ text[2] \notin ExcKeys
    /\ correct_POS[2].val[2] = TagAt(3)
    /\ TagAt(3) # TagAt(0)

\* The number of stream entries a reference token stands for: one sentinel
\* for a blank token, the table's count for a key of the exception table,
\* and one entry per word otherwise.
ExpCount(tok) ==
    IF Len(Words(tok)) = 0 THEN 1
    ELSE IF Len(Words(tok)) = 1 /\ tok \in ExcKeys THEN ExcEntry(tok)[2]
    ELSE Len(Words(tok))

RECURSIVE StartOf(_)
\* The 0-based stream position where the entries of text[j] begin when
\* every earlier token has its expected number of entries.
StartOf(j) == IF j <= 1 THEN 0 ELSE StartOf(j - 1) + ExpCount(text[j - 1])

\* The walk has begun (text carries its closing sentinel and the stream is
\* the tagger's).
Walking == a_pc \in {"loop", "done", "error"}

\* The tagger gave every reference token exactly its expected number of
\* entries and every sentence one closing sentinel: no token has more than
\* four words, the stream is as long as the expected counts add up to, and
\* its sentinels are at the places of the blank reference tokens.
WellAligned ==
    /\ Walking
    /\ \A j \in 1..Len(text) : Len(Words(text[j])) <= 4
    /\ StartOf(Len(text) + 1) = Len(predicted_POS)
    /\ \A j \in 1..Len(text) :
          \A q \in StartOf(j)..(StartOf(j + 1) - 1) :
              (predicted_POS[q + 1] = Sentinel) <=> (Len(Words(text[j])) = 0)

\* C14: when the tagger gave every reference token its expected number of
\* entries and every sentence one sentinel, the walk never aborts, the
\* cursor is at the first entry of the token being processed, it is on a
\* sentinel of the stream exactly when that token is a reference sentinel,
\* it ends at the length of the stream, and the tag emitted for a token
\* outside the exception table is the '+'-join of that token's own entries.
C14_AlignedWalk ==
    WellAligned =>
        /\ a_pc # "error"
        /\ i = StartOf(k + 1)
        /\ AtHead =>
              /\ i < Len(predicted_POS)
              /\ (predicted_POS[i + 1] = Sentinel) <=> (NWords = 0)
        /\ k = Len(text) => i = Len(predicted_POS)
        /\ \A j \in 1..Len(correct_POS) :
              (Len(Words(text[j])) >= 1 /\ text[j] \notin ExcKeys) =>
                  /\ correct_POS[j] # Sentinel
                  /\ correct_POS[j].val[2] = PlusTags(StartOf(j), Len(Words(text[j])))

\* A well-aligned walk over two sentences, a two-word token among them whose
\* entries carry different tags, has finished.
C14_Witness ==
    /\ WellAligned
    /\ a_pc = "done"
    /\ i = Len(predicted_POS)
    /\ SentinelCount(predicted_POS) = 2
    /\ \E j \in 1..Len(correct_POS) :
          /\ Len(Words(text[j])) = 2
          /\ correct_POS[j].val[2] = "VAFIN+PPER"

\* --------------------------------- evaluation.py: calculate_accuracies
MaxAcc == 3

\* Lines of a *_POS_out.txt file: blank lines, eight-column records of the
\* three strategies with tags that agree or differ, and a five-column line.
AccLines ==
    {<<NL>>, MkLine(<< <<"N">>, <<"a">>, <<"a">>, <<"a">>, <<"P">> >>)} \cup
    {MkLine(<< <<st>>, <<"a">>, <<"a">>, <<"a">>, <<"P">>, tg[1], tg[2], tg[3] >>) :
        st \in {"U", "A", "N"},
        tg \in { << <<"P">>, <<"P">>, <<"P">> >>, << <<"Q">>, <<"P">>, <<"Q">> >> }}

AccLine == acc_lines[c_idx + 1]
Counting == c_pc = "count" /\ c_idx < Len(acc_lines)

\* line.startswith(prefix) for a one-character prefix
StartsWith(line, prefix) == Len(line) >= 1 /\ line[1] = prefix

\* line.split('\t')[4] == line.split('\t')[5], [6], [7].rstrip(): 1 or 0
AgreeLb(line) == IF Cols(line)[5] = Cols(line)[6] THEN 1 ELSE 0
AgreeUb(line) == IF Cols(line)[5] = Cols(line)[7] THEN 1 ELSE 0
AgreeB(line) == IF Cols(line)[5] = RStrip(Cols(line)[8]) THEN 1 ELSE 0

\* if line.startswith('U')
CountUnique ==
    /\ Counting
    /\ StartsWith(AccLine, "U")
    /\ Len(Cols(AccLine)) >= 8
    /\ n_unique' = n_unique + 1
    /\ same' = [same EXCEPT !.u_lb = @ + AgreeLb(AccLine),
                            !.u_ub = @ + AgreeUb(AccLine),
                            !.u_b = @ + AgreeB(AccLine)]
    /\ c_idx' = c_idx + 1
    /\ UNCHANGED <<acc_lines, n_ambigue, n_new, acc_result, c_pc>>
    /\ UNCHANGED <<nvars, avars>>

\* elif line.startswith('A')
CountAmbigue ==
    /\ Counting
    /\ StartsWith(AccLine, "A")
    /\ Len(Cols(AccLine)) >= 8
    /\ n_ambigue' = n_ambigue + 1
    /\ same' = [same EXCEPT !.a_lb = @ + AgreeLb(AccLine),
                            !.a_ub = @ + AgreeUb(AccLine),
                            !.a_b = @ + AgreeB(AccLine)]
    /\ c_idx' = c_idx + 1
    /\ UNCHANGED <<acc_lines, n_unique, n_new, acc_result, c_pc>>
    /\ UNCHANGED <<nvars, avars>>

\* elif line.startswith('N')
CountNew ==
    /\ Counting
    /\ StartsWith(AccLine, "N")
    /\ Len(Cols(AccLine)) >= 8
    /\ n_new' = n_new + 1
    /\ same' = [same EXCEPT !.n_lb = @ + AgreeLb(AccLine),
                            !.n_ub = @ + AgreeUb(AccLine),
                            !.n_b = @ + AgreeB(AccLine)]
    /\ c_idx' = c_idx + 1
    /\ UNCHANGED <<acc_lines, n_unique, n_ambigue, acc_result, c_pc>>
    /\ UNCHANGED <<nvars, avars>>

\* else: pass
CountOther ==
    /\ Counting
    /\ \A st \in {"U", "A", "N"} : ~StartsWith(AccLine, st)
    /\ c_idx' = c_idx + 1
    /\ UNCHANGED <<acc_lines, n_unique, n_ambigue, n_new, same, acc_result, c_pc>>
    /\ UNCHANGED <<nvars, avars>>

\* line.split('\t')[5..7] raises IndexError on a record of fewer columns.
CountFault ==
    /\ Counting
    /\ \E st \in {"U", "A", "N"} : StartsWith(AccLine, st)
    /\ Len(Cols(AccLine)) < 8
    /\ acc_result' = [raised |-> "IndexError", table |-> <<>>]
    /\ c_pc' = "error"
    /\ UNCHANGED <<acc_lines, c_idx, n_unique, n_ambigue, n_new, same>>
    /\ UNCHANGED <<nvars, avars>>

\* A division that yields 0 for a zero divisor instead of raising.
DivisionGuarded(n) == FALSE

\* same / n raises ZeroDivisionError when n is 0.
DivisionRaises(n) == n = 0

\* round((sm / n)*100, 2), in hundredths of a percent (no count of the
\* bounded files gives a tie at the third decimal). With n = 0 the division
\* has raised, and no value is used.
Accuracy(sm, n) == IF n = 0 THEN 0 ELSE (sm * 10000 * 2 + n) \div (2 * n)

n_total == n_unique + n_ambigue + n_new

\* The four tuples calculate_accuracies returns.
AccuracyTable ==
    << <<n_unique, n_ambigue, n_new, n_total>>,
       <<Accuracy(same.u_lb, n_unique), Accuracy(same.a_lb, n_ambigue),
         Accuracy(same.n_lb, n_new),
         Accuracy(same.u_lb + same.a_lb + same.n_lb, n_total)>>,
       <<Accuracy(same.u_ub, n_unique), Accuracy(same.a_ub, n_ambigue),
         Accuracy(same.n_ub, n_new),
         Accuracy(same.u_ub + same.a_ub + same.n_ub, n_total)>>,
       <<Accuracy(same.u_b, n_unique), Accuracy(same.a_b, n_ambigue),
         Accuracy(same.n_b, n_new),
         Accuracy(same.u_b + same.a_b + same.n_b, n_total)>> >>

Divisors == {n_unique, n_ambigue, n_new, n_total}

\* One of the divisions of lines 318-336 raises ZeroDivisionError.
ComputeFault ==
    /\ c_pc = "count"
    /\ c_idx = Len(acc_lines)
    /\ \E n \in Divisors : DivisionRaises(n)
    /\ acc_result' = [raised |-> "ZeroDivisionError", table |-> <<>>]
    /\ c_pc' = "error"
    /\ UNCHANGED <<acc_lines, c_idx, n_unique, n_ambigue, n_new, same>>
    /\ UNCHANGED <<nvars, avars>>

\* return (n_unique, ...), (accuracy_lb_u, ...), (...), (...)
ReturnAccuracies ==
    /\ c_pc = "count"
    /\ c_idx = Len(acc_lines)
    /\ \A n \in Divisors : ~DivisionRaises(n)
    /\ acc_result' = [raised |-> "none", table |-> AccuracyTable]
    /\ c_pc' = "done"
    /\ UNCHANGED <<acc_lines, c_idx, n_unique, n_ambigue, n_new, same>>
    /\ UNCHANGED <<nvars, avars>>

AccInit ==
    /\ acc_lines \in SeqsUpTo(AccLines, MaxAcc)
    /\ c_idx = 0
    /\ n_unique = 0
    /\ n_ambigue = 0
    /\ n_new = 0
    /\ same = NoneSame
    /\ acc_result = NoResult
    /\ c_pc = "count"
    /\ NormIdle
    /\ AlignIdle

AccNext ==
    \/ CountUnique
    \/ CountAmbigue
    \/ CountNew
    \/ CountOther
    \/ CountFault
    \/ ComputeFault
    \/ ReturnAccuracies

SpecAcc == AccInit /\ [][AccNext]_vars

\* The three programs' runs together.
Init == NormInit \/ AlignInit \/ AccInit
Next == NormNext \/ AlignNext \/ AccNext
Spec == Init /\ [][Next]_vars

\* ------------------------------------- properties of calculate_accuracies
\* The records of a strategy in the evaluated file, read off the lines.
Bucket(st) == {j \in 1..Len(acc_lines) : StartsWith(acc_lines[j], st)}
SomeBucketEmpty == \E st \in {"U", "A", "N"} : Bucket(st) = {}
Finished == c_pc \in {"done", "error"}

\* C9: a finished run over a file with an empty strategy bucket has raised
\* an error (ZeroDivisionError once every line was counted) and returned
\* no table; a returned table has no accuracy that was computed over a
\* zero denominator.
C9_EmptyBucketRaises ==
    /\ (Finished /\ SomeBucketEmpty) =>
          /\ c_pc = "error"
          /\ acc_result.raised =
                IF c_idx = Len(acc_lines) THEN "ZeroDivisionError" ELSE "IndexError"
          /\ acc_result.table = <<>>
    /\ c_pc = "done" =>
          /\ acc_result.raised = "none"
          /\ \A p \in 1..4 : acc_result.table[1][p] > 0

\* All records were counted, one bucket stayed empty, and the division
\* raised ZeroDivisionError.
C9_Witness ==
    /\ c_pc = "error"
    /\ acc_result.raised = "ZeroDivisionError"
    /\ c_idx = Len(acc_lines)
    /\ Bucket("U") # {} /\ Bucket("A") # {} /\ Bucket("N") = {}

====
